---------------------------- MODULE Spec2Model ----------------------------
(***************************************************************************)
(* A model of the GLIMS glacier-outline pipeline:                          *)
(*   src/src/glacier/data/data_cleaning.py       (cleaning steps, views)   *)
(*   src/src/glacier/data/feature_engineering.py (history features)        *)
(*   src/src/glacier/data/data_fetching.py       (atomic download)         *)
(*                                                                         *)
(* A table (GeoDataFrame) is a record                                      *)
(*   [cols, crs, cat, rows, exc]                                           *)
(* cols: the set of column names present; crs: the EPSG code or NoCrs;     *)
(* cat: the columns of category dtype; rows: the sequence of rows in index *)
(* order; exc: the exception a call ended with ("" when it returned).      *)
(* A row is a record with one field per column name the model knows; the   *)
(* field of a column that is not in cols holds that column's placeholder   *)
(* and is never read (every step tests cols first, as the code does).      *)
(***************************************************************************)
EXTENDS Integers, Sequences, FiniteSets, TLC

VARIABLES
    env,        \* library capability: does GeoSeries.make_valid exist
    inp,        \* the table handed to the last call
    gdf,        \* the table the last call returned (inp when it raised)
    op,         \* name of the last call ("input" before any call)
    args,       \* arguments of the last call
    view,       \* the result of the last make_temporal_view / make_prediction_view
    hist,       \* add_glims_history_features: temporal_all
    tgts,       \* add_glims_history_features: temporal_targets
    feats,      \* add_glims_history_features: the feature rows returned
    fs,         \* file system of the download directory: path -> content
    dl          \* state of the fetch_data run

vars == <<env, inp, gdf, op, args, view, hist, tgts, feats, fs, dl>>

-----------------------------------------------------------------------------
(* Missing values.  Numeric cells are integers; NaN and NaT are integers   *)
(* outside every value domain of the model and are tested explicitly       *)
(* wherever pandas treats a missing value specially.                       *)

NaN == -1000000
NaT == -1
NoCrs == 0
NullGeom == "null"
EmptyGeom == "empty"
NoneStr == "None"

IsNa(x) == x = NaN
\* comparisons with NaN are False in numpy/pandas
Gt(a, b) == ~IsNa(a) /\ ~IsNa(b) /\ a > b
Le(a, b) == ~IsNa(a) /\ ~IsNa(b) /\ a <= b
\* arithmetic with NaN yields NaN
Sub(a, b) == IF IsNa(a) \/ IsNa(b) THEN NaN ELSE a - b

Range(s) == {s[i] : i \in DOMAIN s}


-----------------------------------------------------------------------------
(* Geometries.  A geometry cell is one of a few shapes named by how the    *)
(* two repair strategies of fix_invalid_geometries act on it:              *)
(*   "null"   None                                                         *)
(*   "empty"  an empty polygon                                             *)
(*   "P"      a valid polygon                                              *)
(*   "Pn"     the same region as P with its ring rewritten by buffer(0):   *)
(*            valid, equal as a region, different bytes                    *)
(*   "Pbad"   an invalid polygon that make_valid repairs to P and          *)
(*            buffer(0) repairs to Pn                                      *)
(*   "Dgn"    an invalid polygon that either repair degenerates to empty   *)

Geoms == {NullGeom, EmptyGeom, "P", "Pn", "Pbad", "Dgn"}

IsValidGeom(g) == g \in {EmptyGeom, "P", "Pn"}

\* GeoSeries.make_valid(): a valid geometry is preserved, None stays None
MakeValid(g) ==
    CASE g = "Pbad" -> "P"
      [] g = "Dgn"  -> EmptyGeom
      [] OTHER      -> g

\* GeoSeries.buffer(0)
Buffer0(g) ==
    CASE g = "Pbad" -> "Pn"
      [] g = "P"    -> "Pn"
      [] g = "Dgn"  -> EmptyGeom
      [] OTHER      -> g

\* GeoSeries.to_wkb(): None for None, else byte order, geometry type
\* (3 = polygon), number of rings and the bytes of the coordinates
ToWkb(g) ==
    CASE g = NullGeom  -> << >>
      [] g = EmptyGeom -> <<1, 3, 0>>
      [] g = "P"       -> <<1, 3, 1, 11, 12, 13, 11>>
      [] g = "Pn"      -> <<1, 3, 1, 12, 13, 11, 12>>
      [] g = "Pbad"    -> <<1, 3, 1, 11, 13, 12, 14, 11>>
      [] g = "Dgn"     -> <<1, 3, 1, 11, 12, 11>>

-----------------------------------------------------------------------------
(* Timestamps are integers year * 10000 + dayofyear * 10 + part of the day,*)
(* so that the integer order is the order of the instants.                 *)

Timestamp(y, doy, part) == y * 10000 + doy * 10 + part
Year(ts) == ts \div 10000
DayOfYear(ts) == (ts % 10000) \div 10

\* pd.to_datetime(errors="coerce", utc=True) on the src_date strings
ToDatetime(s) ==
    CASE s = "2000-06-01"          -> Timestamp(2000, 153, 0)
      [] s = "2000-06-01T00:00:00" -> Timestamp(2000, 153, 0)
      [] s = "2001-06-01"          -> Timestamp(2001, 152, 0)
      [] OTHER                     -> NaT

\* the same conversion written in place (anlys_time): the column holds the
\* text before and the timestamp after; a timestamp converts to itself
ToDatetimeInPlace(s) ==
    CASE s = "2001-03-04"                -> "2001-03-04 00:00:00+00:00"
      [] s = "2001-03-04T00:00:00Z"      -> "2001-03-04 00:00:00+00:00"
      [] s = "2001-03-04 00:00:00+00:00" -> s
      [] OTHER                           -> "NaT"

-----------------------------------------------------------------------------
(* Elevation cells: <<"num", n>>, <<"str", s>> or <<"nan">>.               *)

Num(n) == <<"num", n>>
Str(s) == <<"str", s>>
NanCell == <<"nan">>
CellIsNa(c) == c[1] = "nan"

\* pd.to_numeric(errors="coerce")
ToNumeric(c) ==
    CASE c[1] = "num" -> c
      [] c[1] = "nan" -> NanCell
      [] c[1] = "str" ->
            CASE c[2] = "10"    -> Num(10)
              [] c[2] = "-9999" -> Num(-9999)
              [] OTHER          -> NanCell

CellEq(c, n) == ~CellIsNa(c) /\ c[2] = n
CellLe(a, b) == ~CellIsNa(a) /\ ~CellIsNa(b) /\ a[2] <= b[2]

-----------------------------------------------------------------------------
(* Tables.                                                                 *)

ElevCols == <<"min_elev", "mean_elev", "max_elev">>
CategoryCols == {"primeclass", "surge_type", "term_type", "gtng_o1reg",
                 "gtng_o2reg", "rgi_gl_typ", "conn_lvl"}

Raise(t, e) == [t EXCEPT !.exc = e]
\* gdf[mask]: the rows in keep, in their order
Filter(t, keep) == [t EXCEPT !.rows = SelectSeq(@, LAMBDA r : r \in keep)]
\* a column assignment: f maps each row to the row it becomes
Map(t, f) == [t EXCEPT !.rows = [i \in DOMAIN @ |-> f[@[i]]]]
\* an exception raised by a step leaves the function: no later step runs
Raised(t) == t.exc # ""

\* gdf.geometry: AttributeError when the frame has no geometry column
HasGeometry(t) == "geometry" \in t.cols

keep_outlines(t, value) ==
    IF "line_type" \notin t.cols THEN t
    ELSE Filter(t, {r \in Range(t.rows) : r.line_type = value})

drop_empty_geometries(t) ==
    IF "geometry" \notin t.cols THEN t
    ELSE LET nn == Filter(t, {r \in Range(t.rows) : r.geometry # NullGeom})
         IN  Filter(nn, {r \in Range(nn.rows) : r.geometry # EmptyGeom})

parse_anlys_time(t) ==
    IF "anlys_time" \notin t.cols THEN t
    ELSE Map(t, [r \in Range(t.rows) |-> [r EXCEPT !.anlys_time = ToDatetimeInPlace(@)]])

parse_src_date(t) ==
    IF "src_date" \notin t.cols THEN t
    ELSE [Map(t, [r \in Range(t.rows) |-> [r EXCEPT !.src_date_dt = ToDatetime(r.src_date)]])
            EXCEPT !.cols = @ \cup {"src_date_dt"}]

\* the crs lives on the geometry column: a frame without one has no crs,
\* and set_crs reads gdf.geometry
ensure_crs(t, epsg) ==
    IF t.crs = NoCrs
    THEN IF HasGeometry(t) THEN [t EXCEPT !.crs = epsg]
         ELSE Raise(t, "AttributeError")
    ELSE t

\* fix_invalid_geometries without the final drop_empty_geometries
fix_invalid_geometries_keep_empty(t, has_make_valid) ==
    IF ~HasGeometry(t) THEN Raise(t, "AttributeError")
    ELSE IF has_make_valid
         THEN Map(t, [r \in Range(t.rows) |-> [r EXCEPT !.geometry = MakeValid(@)]])
         ELSE Map(t, [r \in Range(t.rows) |-> [r EXCEPT !.geometry = Buffer0(@)]])

\* make_valid when the library has it, else the except branch: buffer(0);
\* both read gdf.geometry, so the except branch raises again without it
fix_invalid_geometries(t, has_make_valid) ==
    IF ~HasGeometry(t) THEN Raise(t, "AttributeError")
    ELSE drop_empty_geometries(
            IF has_make_valid
            THEN Map(t, [r \in Range(t.rows) |-> [r EXCEPT !.geometry = MakeValid(@)]])
            ELSE Map(t, [r \in Range(t.rows) |-> [r EXCEPT !.geometry = Buffer0(@)]]))

filter_positive_area(t) ==
    IF "area" \notin t.cols THEN t
    ELSE LET nn == Filter(t, {r \in Range(t.rows) : ~IsNa(r.area)})
         IN  Filter(nn, {r \in Range(nn.rows) : Gt(r.area, 0)})


\* one elevation cell after the per-column loop of clean_elevations_soft
ElevCell(c, sentinel, set_nonpositive_to_nan) ==
    LET n == ToNumeric(c)
        s == IF CellEq(n, sentinel) THEN NanCell ELSE n
    IN  IF set_nonpositive_to_nan /\ ~CellIsNa(s) /\ s[2] <= 0 THEN NanCell ELSE s

\* the mask with strict comparisons
ElevOkStrict(r) ==
    \/ CellIsNa(r.min_elev) \/ CellIsNa(r.mean_elev) \/ CellIsNa(r.max_elev)
    \/ (r.min_elev[2] < r.mean_elev[2] /\ r.mean_elev[2] < r.max_elev[2])

\* the mask ok of clean_elevations_soft
ElevOk(r) ==
    \/ CellIsNa(r.min_elev) \/ CellIsNa(r.mean_elev) \/ CellIsNa(r.max_elev)
    \/ (CellLe(r.min_elev, r.mean_elev) /\ CellLe(r.mean_elev, r.max_elev))

clean_elevations_soft(t, sentinel, set_nonpositive_to_nan, enforce_order) ==
    LET present == {c \in Range(ElevCols) : c \in t.cols}
        Cell(c, v) ==
            IF c \in present THEN ElevCell(v, sentinel, set_nonpositive_to_nan) ELSE v
        Coerce(r) ==
            [r EXCEPT !.min_elev  = Cell("min_elev", @),
                      !.mean_elev = Cell("mean_elev", @),
                      !.max_elev  = Cell("max_elev", @)]
        Blank(r) ==
            IF ElevOk(r) THEN r
            ELSE [r EXCEPT !.min_elev = NanCell, !.mean_elev = NanCell,
                           !.max_elev = NanCell]
        coerced == Map(t, [r \in Range(t.rows) |-> Coerce(r)])
    IN  IF present = {} THEN t
        ELSE IF enforce_order /\ \A c \in Range(ElevCols) : c \in t.cols
             THEN Map(coerced, [r \in Range(coerced.rows) |-> Blank(r)])
             ELSE coerced

cast_categories(t) ==
    [t EXCEPT !.cat = @ \cup {c \in CategoryCols : c \in t.cols}]

\* the subset without the parsed date
DupKeyWithoutDate(t, r) == <<r.glac_id, ToWkb(r.geometry)>>

\* the subset of drop_exact_dupes as the tuple of a row's key cells
DupKey(t, r) ==
    <<r.glac_id>>
    \o (IF "src_date_dt" \in t.cols THEN <<r.src_date_dt>> ELSE << >>)
    \o <<ToWkb(r.geometry)>>

\* DataFrame.drop_duplicates(subset): keep="first"; missing values are equal
DropDuplicates(t) ==
    LET rows == t.rows
        keep == {i \in DOMAIN rows :
                    \A j \in 1..(i - 1) : DupKey(t, rows[j]) # DupKey(t, rows[i])}
        F[i \in 0..Len(rows)] ==
            IF i = 0 THEN << >>
            ELSE IF i \in keep THEN Append(F[i - 1], rows[i]) ELSE F[i - 1]
    IN  F[Len(rows)]

drop_exact_dupes(t) ==
    IF "glac_id" \notin t.cols \/ "geometry" \notin t.cols THEN t
    ELSE [t EXCEPT !.rows = DropDuplicates(t)]

Epsg == 4326
Sentinel == -9999

\* the pipeline with the deduplication moved before the geometry repair
clean_glims_outlines_dedup_first(t, has_make_valid) ==
    LET s1  == keep_outlines(t, "glac_bound")
        s2  == IF Raised(s1) THEN s1 ELSE drop_empty_geometries(s1)
        s3  == IF Raised(s2) THEN s2 ELSE ensure_crs(s2, Epsg)
        s4  == IF Raised(s3) THEN s3 ELSE drop_exact_dupes(s3)
        s5  == IF Raised(s4) THEN s4 ELSE fix_invalid_geometries(s4, has_make_valid)
        s6  == IF Raised(s5) THEN s5 ELSE parse_src_date(s5)
        s7  == IF Raised(s6) THEN s6 ELSE parse_anlys_time(s6)
        s8  == IF Raised(s7) THEN s7 ELSE clean_elevations_soft(s7, Sentinel, FALSE, FALSE)
        s9  == IF Raised(s8) THEN s8 ELSE filter_positive_area(s8)
        s10 == IF Raised(s9) THEN s9 ELSE cast_categories(s9)
    IN  s10

clean_glims_outlines(t, has_make_valid) ==
    LET s1  == keep_outlines(t, "glac_bound")
        s2  == IF Raised(s1) THEN s1 ELSE drop_empty_geometries(s1)
        s3  == IF Raised(s2) THEN s2 ELSE ensure_crs(s2, Epsg)
        s4  == IF Raised(s3) THEN s3 ELSE fix_invalid_geometries(s3, has_make_valid)
        s5  == IF Raised(s4) THEN s4 ELSE parse_src_date(s4)
        s6  == IF Raised(s5) THEN s5 ELSE parse_anlys_time(s5)
        s7  == IF Raised(s6) THEN s6 ELSE clean_elevations_soft(s6, Sentinel, FALSE, FALSE)
        s8  == IF Raised(s7) THEN s7 ELSE filter_positive_area(s7)
        s9  == IF Raised(s8) THEN s8 ELSE cast_categories(s8)
        s10 == IF Raised(s9) THEN s9 ELSE drop_exact_dupes(s9)
    IN  s10


-----------------------------------------------------------------------------
(* Views.  A view row is [glac_id, src_date_dt, geometry, area]; its       *)
(* geometry is the union of the group's geometries, held as the set of     *)
(* the parts that were merged.  Areas of the model are even integers, so   *)
(* the mean of the two middle values of a median is an integer too.        *)

\* the order of the identifiers (strings sort lexicographically)
GlacIds == <<"G1", "G2", "G3">>
Rank(id) == CHOOSE i \in DOMAIN GlacIds : GlacIds[i] = id

KeyLess(a, b) == Rank(a[1]) < Rank(b[1]) \/ (a[1] = b[1] /\ a[2] < b[2])

RECURSIVE SortKeys(_)
SortKeys(S) ==
    IF S = {} THEN << >>
    ELSE LET m == CHOOSE x \in S : \A y \in S \ {x} : KeyLess(x, y)
         IN  <<m>> \o SortKeys(S \ {m})

\* the ascending sort of a sequence of numbers
RECURSIVE SortNums(_)
SortNums(q) ==
    IF q = << >> THEN << >>
    ELSE LET i == CHOOSE i \in DOMAIN q : \A j \in DOMAIN q : q[i] <= q[j]
         IN  <<q[i]>> \o SortNums(SubSeq(q, 1, i - 1) \o SubSeq(q, i + 1, Len(q)))

\* the mean in place of the median
Mean(q) ==
    LET s == SelectSeq(q, LAMBDA a : ~IsNa(a))
        F[i \in 0..Len(s)] == IF i = 0 THEN 0 ELSE F[i - 1] + s[i]
    IN  IF s = << >> THEN NaN ELSE F[Len(s)] \div Len(s)

\* Series.median(): missing values are skipped; NaN when nothing is left
Median(q) ==
    LET s == SortNums(SelectSeq(q, LAMBDA a : ~IsNa(a)))
        n == Len(s)
    IN  IF n = 0 THEN NaN
        ELSE IF n % 2 = 1 THEN s[(n + 1) \div 2]
        ELSE (s[n \div 2] + s[n \div 2 + 1]) \div 2

\* Series.between(left, right), inclusive="both"
Between(d, lo, hi) == lo <= d /\ d <= hi

ViewCols == {"glac_id", "src_date_dt", "geometry", "area"}

make_temporal_view(t, min_date, max_date) ==
    IF "src_date_dt" \notin t.cols THEN Raise(t, "ValueError")
    ELSE IF "glac_id" \notin t.cols THEN Raise(t, "KeyError")
    ELSE IF ~HasGeometry(t) THEN Raise(t, "AttributeError")
    ELSE IF "area" \notin t.cols THEN Raise(t, "KeyError")
    ELSE
    LET nn   == SelectSeq(t.rows, LAMBDA r : r.glac_id # NoneStr /\ r.src_date_dt # NaT)
        g    == SelectSeq(nn, LAMBDA r : Between(r.src_date_dt, min_date, max_date))
        keys == SortKeys({<<r.glac_id, r.src_date_dt>> : r \in Range(g)})
        Group(k) == SelectSeq(g, LAMBDA r : <<r.glac_id, r.src_date_dt>> = k)
        Row(k) ==
            [glac_id |-> k[1], src_date_dt |-> k[2],
             geometry |-> {r.geometry : r \in Range(Group(k))},
             area |-> Median([i \in DOMAIN Group(k) |-> Group(k)[i].area])]
    IN  [cols |-> ViewCols, crs |-> t.crs, cat |-> {}, exc |-> "",
         rows |-> [i \in DOMAIN keys |-> Row(keys[i])]]

\* the prediction view with counts > k
make_prediction_view_more_than_k(t, k, min_date, max_date) ==
    LET temporal == make_temporal_view(t, min_date, max_date)
        counts(id) ==
            Cardinality({r.src_date_dt : r \in {x \in Range(temporal.rows) : x.glac_id = id}})
        keep_ids == {id \in {r.glac_id : r \in Range(temporal.rows)} : counts(id) > k}
    IN  IF temporal.exc # "" THEN temporal
        ELSE Filter(temporal, {r \in Range(temporal.rows) : r.glac_id \in keep_ids})

make_prediction_view(t, k, min_date, max_date) ==
    LET temporal == make_temporal_view(t, min_date, max_date)
        counts(id) ==
            Cardinality({r.src_date_dt : r \in {x \in Range(temporal.rows) : x.glac_id = id}})
        keep_ids == {id \in {r.glac_id : r \in Range(temporal.rows)} : counts(id) >= k}
    IN  IF temporal.exc # "" THEN temporal
        ELSE Filter(temporal, {r \in Range(temporal.rows) : r.glac_id \in keep_ids})

-----------------------------------------------------------------------------
(* Input tables of the cleaning steps.                                     *)

MaxRows == 3

AllCols == {"line_type", "geometry", "glac_id", "src_date", "anlys_time",
            "min_elev", "mean_elev", "max_elev", "area"} \cup CategoryCols

\* a raw outline record that every cleaning step keeps
BaseRow ==
    [line_type |-> "glac_bound", geometry |-> "P", glac_id |-> "G1",
     src_date |-> "2000-06-01", src_date_dt |-> NaT,
     anlys_time |-> "2001-03-04",
     min_elev |-> Num(-9999), mean_elev |-> Str("10"), max_elev |-> Num(20),
     area |-> 4]

\* the records that differ from it in one column
RowPool ==
    {BaseRow}
    \cup {[BaseRow EXCEPT !.line_type = "intrnl_rock"]}
    \cup {[BaseRow EXCEPT !.geometry = g] : g \in {NullGeom, "Pbad", "Dgn"}}
    \cup {[BaseRow EXCEPT !.glac_id = "G2"]}
    \cup {[BaseRow EXCEPT !.src_date = d] :
            d \in {"2000-06-01T00:00:00", "unknown"}}
    \cup {[BaseRow EXCEPT !.area = a] : a \in {NaN, 0}}

\* more of them for the single steps
StepRowPool ==
    RowPool
    \cup {[BaseRow EXCEPT !.line_type = NoneStr], [BaseRow EXCEPT !.src_date = "2001-06-01"]}
    \cup {[BaseRow EXCEPT !.geometry = g] : g \in {EmptyGeom, "Pn"}}
    \cup {[BaseRow EXCEPT !.anlys_time = "n/a", !.mean_elev = Num(30)]}

\* the cell a row holds for a column the table does not have
Placeholder(c) ==
    CASE c \in {"min_elev", "mean_elev", "max_elev"} -> NanCell
      [] c = "area"        -> NaN
      [] c = "src_date_dt" -> NaT
      [] OTHER             -> ""

Project(r, cols) == [c \in DOMAIN r |-> IF c \in cols THEN r[c] ELSE Placeholder(c)]

Table(cols, crs, rows) ==
    [cols |-> cols, crs |-> crs, cat |-> {}, exc |-> "",
     rows |-> [i \in DOMAIN rows |-> Project(rows[i], cols)]]

SeqsUpTo(S, n) == UNION {[1..k -> S] : k \in 0..n}

\* the crs an input may carry: none, or one other than the default
\* (EPSG:3413, NSIDC polar stereographic north)
InputCrs == {NoCrs, 3413}

\* the pipeline runs: the full schema with and without a crs and with
\* either repair, and the schemas without a column the contract calls optional
PipelineInputs ==
    {[cols |-> AllCols, crs |-> c, has_make_valid |-> m] :
        c \in InputCrs, m \in BOOLEAN}
    \cup {[cols |-> AllCols \ d, crs |-> NoCrs, has_make_valid |-> TRUE] :
        d \in {{"line_type"}, {"area"}, {"src_date"}}}

\* schemas of the single steps: one column (group) missing at a time
StepSchemas ==
    {AllCols \ d : d \in {{}, {"line_type"}, {"geometry"}, {"glac_id"},
                          {"src_date"}, {"anlys_time"}, Range(ElevCols),
                          {"mean_elev"}, {"area"}, CategoryCols}}

CrsOf(cols) == IF "geometry" \in cols THEN InputCrs ELSE {NoCrs}

NoTable == Table({}, NoCrs, << >>)
NoArgs == [k |-> 0, min_date |-> 0, max_date |-> 0,
           set_nonpositive_to_nan |-> FALSE, enforce_order |-> FALSE]

Idle == [pc |-> "idle"]

InitOther ==
    /\ view = NoTable
    /\ hist = << >> /\ tgts = << >> /\ feats = << >>
    /\ fs = << >> /\ dl = Idle

InitCall ==
    /\ inp = gdf
    /\ op = "input"
    /\ args = NoArgs

\* a call of a cleaning function on the current table
Call(name, result, a) ==
    /\ gdf.exc = ""
    /\ op' = name
    /\ args' = a
    /\ inp' = gdf
    /\ gdf' = IF result.exc = "" THEN result ELSE Raise(gdf, result.exc)
    /\ UNCHANGED <<env, view, hist, tgts, feats, fs, dl>>

KeepOutlines == Call("keep_outlines", keep_outlines(gdf, "glac_bound"), NoArgs)
DropEmptyGeometries == Call("drop_empty_geometries", drop_empty_geometries(gdf), NoArgs)
ParseAnlysTime == Call("parse_anlys_time", parse_anlys_time(gdf), NoArgs)
ParseSrcDate == Call("parse_src_date", parse_src_date(gdf), NoArgs)
EnsureCrs == Call("ensure_crs", ensure_crs(gdf, Epsg), NoArgs)
FixInvalidGeometries ==
    Call("fix_invalid_geometries", fix_invalid_geometries(gdf, env.has_make_valid), NoArgs)
FilterPositiveArea == Call("filter_positive_area", filter_positive_area(gdf), NoArgs)
CleanElevationsSoft ==
    \E np \in BOOLEAN, eo \in BOOLEAN :
        Call("clean_elevations_soft", clean_elevations_soft(gdf, Sentinel, np, eo),
             [NoArgs EXCEPT !.set_nonpositive_to_nan = np, !.enforce_order = eo])
CastCategories == Call("cast_categories", cast_categories(gdf), NoArgs)
DropExactDupes == Call("drop_exact_dupes", drop_exact_dupes(gdf), NoArgs)
CleanGlimsOutlines ==
    Call("clean_glims_outlines", clean_glims_outlines(gdf, env.has_make_valid), NoArgs)

\* the pipeline, and the deduplication before and after the date is
\* parsed, on raw and on already cleaned tables
Init ==
    /\ \E i \in PipelineInputs, rows \in SeqsUpTo(RowPool, MaxRows) :
         /\ env = [has_make_valid |-> i.has_make_valid]
         /\ gdf = Table(i.cols, i.crs, rows)
    /\ InitCall
    /\ InitOther
Next == CleanGlimsOutlines \/ ParseSrcDate \/ DropExactDupes
Spec == Init /\ [][Next]_vars


-----------------------------------------------------------------------------
(* The single steps on tables with a column missing.                       *)

MaxStepRows == 1

\* a call that builds a view of the current table
CallView(name, result, a) ==
    /\ gdf.exc = ""
    /\ op' = name
    /\ args' = a
    /\ inp' = gdf
    /\ view' = IF result.exc = "" THEN result ELSE NoTable
    /\ gdf' = IF result.exc = "" THEN gdf ELSE Raise(gdf, result.exc)
    /\ UNCHANGED <<env, hist, tgts, feats, fs, dl>>

D1 == Timestamp(2000, 153, 0)
D2 == Timestamp(2001, 152, 0)
D3 == Timestamp(2002, 152, 0)

\* date windows [min_date, max_date]; the first is the default one
Windows == {<<Timestamp(1900, 1, 0), Timestamp(2026, 365, 0)>>, <<D1, D2>>, <<D2, D3>>}
Ks == {1, 2, 3}

MakeTemporalView ==
    \E w \in Windows :
        CallView("make_temporal_view", make_temporal_view(gdf, w[1], w[2]),
                 [NoArgs EXCEPT !.min_date = w[1], !.max_date = w[2]])

MakePredictionView ==
    \E w \in Windows, k \in Ks :
        CallView("make_prediction_view", make_prediction_view(gdf, k, w[1], w[2]),
                 [NoArgs EXCEPT !.k = k, !.min_date = w[1], !.max_date = w[2]])

InitSteps ==
    /\ env \in [has_make_valid : BOOLEAN]
    /\ \E cols \in StepSchemas, rows \in SeqsUpTo(StepRowPool, MaxStepRows) :
         \E crs \in CrsOf(cols) : gdf = Table(cols, crs, rows)
    /\ InitCall
    /\ InitOther
\* a step is called on an input table or on the table parse_src_date returned
OnStepInput == op \in {"input", "parse_src_date"}
NextSteps ==
    \/ OnStepInput /\ KeepOutlines
    \/ OnStepInput /\ DropEmptyGeometries
    \/ OnStepInput /\ EnsureCrs
    \/ OnStepInput /\ FixInvalidGeometries
    \/ OnStepInput /\ ParseSrcDate
    \/ OnStepInput /\ ParseAnlysTime
    \/ OnStepInput /\ CleanElevationsSoft
    \/ OnStepInput /\ FilterPositiveArea
    \/ OnStepInput /\ CastCategories
    \/ OnStepInput /\ DropExactDupes
    \/ OnStepInput /\ CleanGlimsOutlines
    \/ OnStepInput /\ MakeTemporalView
SpecSteps == InitSteps /\ [][NextSteps]_vars


-----------------------------------------------------------------------------
(* The views of tables that carry src_date_dt.                             *)

MaxViewRows == 3

ViewInputCols == AllCols \cup {"src_date_dt"}

ViewInputRow(id, d, a) ==
    [BaseRow EXCEPT !.glac_id = id, !.src_date_dt = d, !.area = a,
                    !.anlys_time = ToDatetimeInPlace(@),
                    !.min_elev = NanCell, !.mean_elev = Num(10)]

ViewRowPool ==
    {ViewInputRow(id, d, a) : id \in {"G1", "G2"}, d \in {D1, D2, D3}, a \in {2, 8}}
    \cup {ViewInputRow(NoneStr, D1, 2), ViewInputRow("G1", NaT, 2)}

InitViews ==
    /\ env \in [has_make_valid : {TRUE}]
    /\ \E rows \in SeqsUpTo(ViewRowPool, MaxViewRows) :
         gdf = [Table(ViewInputCols, Epsg, rows) EXCEPT !.cat = CategoryCols]
    /\ InitCall
    /\ InitOther
\* a view is a function of the table alone: one call per run shows them all
NextViews ==
    \/ (op = "input" /\ MakeTemporalView)
    \/ (op = "input" /\ MakePredictionView)
SpecViews == InitViews /\ [][NextViews]_vars


-----------------------------------------------------------------------------
(* Claims about the cleaning pipeline (specification Spec).                *)

Returned(name) == op = name /\ gdf.exc = ""

\* C1: the output of clean_glims_outlines has no row whose line_type is not
\* "glac_bound" (when the column exists), no row with a null or empty
\* geometry, no row with a missing or non-positive area (when the column
\* exists), and its coordinate reference system is set.
C1_CleanedRowsValid ==
    Returned("clean_glims_outlines") =>
        /\ "line_type" \in gdf.cols =>
              \A i \in DOMAIN gdf.rows : gdf.rows[i].line_type = "glac_bound"
        /\ \A i \in DOMAIN gdf.rows : gdf.rows[i].geometry \notin {NullGeom, EmptyGeom}
        /\ "area" \in gdf.cols =>
              \A i \in DOMAIN gdf.rows : gdf.rows[i].area # NaN /\ gdf.rows[i].area > 0
        /\ gdf.crs # NoCrs

\* a raw table with no crs and a geometry that repair empties was cleaned,
\* and another of its rows survived
C1_Witness ==
    /\ Returned("clean_glims_outlines")
    /\ inp.crs = NoCrs
    /\ \E i \in DOMAIN inp.rows : inp.rows[i].geometry = "Dgn"
    /\ Len(gdf.rows) >= 1

\* the deduplication key of the contract, read off a row of table t
ContractKey(t, r) ==
    [glac_id |-> r.glac_id,
     date    |-> IF "src_date_dt" \in t.cols THEN r.src_date_dt ELSE NaT,
     wkb     |-> ToWkb(r.geometry)]

DistinctKeys(t) ==
    \A i, j \in DOMAIN t.rows :
        i # j => ContractKey(t, t.rows[i]) # ContractKey(t, t.rows[j])

FirstWithKey(t, k) ==
    CHOOSE i \in DOMAIN t.rows :
        /\ ContractKey(t, t.rows[i]) = k
        /\ \A j \in 1..(i - 1) : ContractKey(t, t.rows[j]) # k

\* C2: after drop_exact_dupes (and after clean_glims_outlines) on a table
\* with glac_id and geometry no two rows share the key (glac_id, src_date_dt
\* if present, WKB of the geometry); every key of the input survives in
\* exactly one row, which is the first input row with that key, and the
\* survivors keep the input order.
C2_DedupKeepsFirstPerKey ==
    /\ (Returned("drop_exact_dupes") /\ {"glac_id", "geometry"} \subseteq inp.cols) =>
          /\ DistinctKeys(gdf)
          /\ {ContractKey(gdf, gdf.rows[i]) : i \in DOMAIN gdf.rows}
                = {ContractKey(inp, inp.rows[i]) : i \in DOMAIN inp.rows}
          /\ \A i \in DOMAIN gdf.rows :
                gdf.rows[i] = inp.rows[FirstWithKey(inp, ContractKey(gdf, gdf.rows[i]))]
          /\ \A i, j \in DOMAIN gdf.rows :
                i < j => FirstWithKey(inp, ContractKey(gdf, gdf.rows[i]))
                            < FirstWithKey(inp, ContractKey(gdf, gdf.rows[j]))
    /\ (Returned("clean_glims_outlines") /\ {"glac_id", "geometry"} \subseteq gdf.cols) =>
          DistinctKeys(gdf)

\* drop_exact_dupes removed a later row and kept two rows that differ in
\* one component of the key only
C2_Witness ==
    /\ Returned("drop_exact_dupes")
    /\ "src_date_dt" \in inp.cols
    /\ Len(inp.rows) > Len(gdf.rows)
    /\ \E i, j \in DOMAIN gdf.rows :
          /\ gdf.rows[i].glac_id = gdf.rows[j].glac_id
          /\ gdf.rows[i].geometry = gdf.rows[j].geometry
          /\ gdf.rows[i].src_date_dt # gdf.rows[j].src_date_dt

\* C8: clean_glims_outlines on the output of clean_glims_outlines returns
\* a table with the same number of rows.
C8_SecondCleanKeepsRowCount ==
    [][(Returned("clean_glims_outlines") /\ op' = "clean_glims_outlines")
          => (gdf'.exc = "" /\ Len(gdf'.rows) = Len(gdf.rows))]_vars

\* the pipeline ran on a table it had produced (only its output carries
\* category columns), after removing a duplicate in the first run
C8_Witness ==
    /\ Returned("clean_glims_outlines")
    /\ inp.cat # {}
    /\ "src_date_dt" \in inp.cols
    /\ Len(gdf.rows) >= 2


-----------------------------------------------------------------------------
(* Claims about missing columns (specification SpecSteps).                 *)

\* the column set whose absence makes a step a no-op, per step
StepColumns(step) ==
    CASE step = "keep_outlines"          -> {"line_type"}
      [] step = "drop_empty_geometries"  -> {"geometry"}
      [] step = "ensure_crs"             -> {"geometry"}
      [] step = "fix_invalid_geometries" -> {"geometry"}
      [] step = "parse_src_date"         -> {"src_date"}
      [] step = "parse_anlys_time"       -> {"anlys_time"}
      [] step = "clean_elevations_soft"  -> Range(ElevCols)
      [] step = "filter_positive_area"   -> {"area"}
      [] step = "cast_categories"        -> CategoryCols
      [] step = "drop_exact_dupes"       -> {"glac_id"}

Steps == {"keep_outlines", "drop_empty_geometries", "ensure_crs",
          "fix_invalid_geometries", "parse_src_date", "parse_anlys_time",
          "clean_elevations_soft", "filter_positive_area", "cast_categories",
          "drop_exact_dupes"}

NoOpWithoutColumn(step) ==
    (op = step /\ StepColumns(step) \cap inp.cols = {}) =>
        (gdf.exc = "" /\ gdf.rows = inp.rows)

\* C3: every cleaning step, and clean_glims_outlines as a whole, returns
\* without raising (a single step: with its input rows unchanged) when the
\* column it operates on is absent; only make_temporal_view fails on a
\* missing column, with an explicit error when src_date_dt is absent.
C3_MissingColumnIsNoOp ==
    /\ \A step \in Steps : NoOpWithoutColumn(step)
    /\ op = "clean_glims_outlines" => gdf.exc = ""
    /\ (op = "make_temporal_view" /\ "src_date_dt" \notin inp.cols) =>
          gdf.exc = "ValueError"

\* what does hold of the code: the steps that never read gdf.geometry
\* unguarded are no-ops without their column, and make_temporal_view
\* raises its ValueError
C3_GuardedStepsAreNoOps ==
    /\ \A step \in Steps \ {"ensure_crs", "fix_invalid_geometries"} :
          NoOpWithoutColumn(step)
    /\ (op = "make_temporal_view" /\ "src_date_dt" \notin inp.cols) =>
          gdf.exc = "ValueError"

-----------------------------------------------------------------------------
(* Claims about the views (specification SpecViews).                       *)

\* the (glac_id, src_date_dt) pairs of the rows of t that have both and
\* whose date lies in [lo, hi]
PairsInWindow(t, lo, hi) ==
    {<<t.rows[i].glac_id, t.rows[i].src_date_dt>> : i \in
        {i \in DOMAIN t.rows :
            /\ t.rows[i].glac_id # NoneStr
            /\ t.rows[i].src_date_dt # NaT
            /\ lo <= t.rows[i].src_date_dt
            /\ t.rows[i].src_date_dt <= hi}}

RowsOfPair(t, pair) ==
    {i \in DOMAIN t.rows : <<t.rows[i].glac_id, t.rows[i].src_date_dt>> = pair}

\* x is the k-th smallest of the areas of the rows I of t
IsOrderStat(t, I, k, x) ==
    /\ \E i \in I : t.rows[i].area = x
    /\ Cardinality({i \in I : t.rows[i].area < x}) < k
    /\ Cardinality({i \in I : t.rows[i].area <= x}) >= k

\* m is the median of the areas of the rows I of t
IsMedian(t, I, m) ==
    LET n == Cardinality(I)
    IN  IF n % 2 = 1 THEN IsOrderStat(t, I, (n + 1) \div 2, m)
        ELSE \E i, j \in I :
                /\ IsOrderStat(t, I, n \div 2, t.rows[i].area)
                /\ IsOrderStat(t, I, n \div 2 + 1, t.rows[j].area)
                /\ 2 * m = t.rows[i].area + t.rows[j].area

\* C4: make_temporal_view returns exactly one row per distinct
\* (glac_id, src_date_dt) pair of the input rows that have both and lie in
\* the inclusive window, no other row, and each row's area is the median of
\* the areas of the input rows with that pair.
C4_TemporalViewOneRowPerPairMedianArea ==
    Returned("make_temporal_view") =>
        /\ {<<view.rows[i].glac_id, view.rows[i].src_date_dt>> : i \in DOMAIN view.rows}
              = PairsInWindow(inp, args.min_date, args.max_date)
        /\ Len(view.rows) = Cardinality(PairsInWindow(inp, args.min_date, args.max_date))
        /\ \A i \in DOMAIN view.rows :
              IsMedian(inp,
                       RowsOfPair(inp, <<view.rows[i].glac_id, view.rows[i].src_date_dt>>),
                       view.rows[i].area)

\* three rows of one pair, dated on the upper bound of the window and with
\* differing areas, were reduced to one row
C4_Witness ==
    /\ Returned("make_temporal_view")
    /\ Len(view.rows) = 1
    /\ Len(inp.rows) = 3
    /\ \E i \in DOMAIN inp.rows : inp.rows[i].src_date_dt = args.max_date
    /\ \E i, j \in DOMAIN inp.rows : inp.rows[i].area # inp.rows[j].area
    /\ \A i \in DOMAIN inp.rows : inp.rows[i].glac_id = "G1" /\ inp.rows[i].src_date_dt = D2

\* the number of distinct dates of id among the pairs in the window
DatesOf(t, id, lo, hi) ==
    Cardinality({p[2] : p \in {q \in PairsInWindow(t, lo, hi) : q[1] = id}})

\* C5: an identifier is in the prediction view iff it has at least k
\* distinct dates in the temporal view of the window, and the prediction
\* view holds exactly the temporal-view rows of those identifiers.
C5_PredictionViewMembership ==
    Returned("make_prediction_view") =>
        LET temporal == make_temporal_view(inp, args.min_date, args.max_date)
            Qualifies(id) == DatesOf(inp, id, args.min_date, args.max_date) >= args.k
        IN  /\ \A n \in DOMAIN GlacIds :
                  (\E i \in DOMAIN view.rows : view.rows[i].glac_id = GlacIds[n])
                      <=> Qualifies(GlacIds[n])
            /\ view.rows = SelectSeq(temporal.rows, LAMBDA r : Qualifies(r.glac_id))

\* with k = 2 an identifier with two dates in the window is kept with both
\* of its rows and an identifier with one date in the window is left out
C5_Witness ==
    /\ Returned("make_prediction_view")
    /\ args.k = 2
    /\ Len(view.rows) = 2
    /\ \E i \in DOMAIN inp.rows :
          /\ <<inp.rows[i].glac_id, inp.rows[i].src_date_dt>>
                \in PairsInWindow(inp, args.min_date, args.max_date)
          /\ \A j \in DOMAIN view.rows : view.rows[j].glac_id # inp.rows[i].glac_id


-----------------------------------------------------------------------------
(* clean_elevations_soft on tables whose elevations vary                   *)
(* (specification SpecElev).                                               *)

MaxElevRows == 1

ElevCells == {NanCell, Str("10"), Num(-9999), Num(-5), Num(20)}

ElevRowPool ==
    {[BaseRow EXCEPT !.min_elev = a, !.mean_elev = b, !.max_elev = c] :
        a \in ElevCells, b \in ElevCells, c \in ElevCells}
    \cup {[BaseRow EXCEPT !.min_elev = Str("n/a"), !.mean_elev = Num(20),
                          !.max_elev = Str("-9999")]}

InitElev ==
    /\ env \in [has_make_valid : {TRUE}]
    /\ \E cols \in {AllCols, AllCols \ {"mean_elev"}},
          rows \in SeqsUpTo(ElevRowPool, MaxElevRows) :
         gdf = Table(cols, Epsg, rows)
    /\ InitCall
    /\ InitOther
NextElev == CleanElevationsSoft
SpecElev == InitElev /\ [][NextElev]_vars

\* a cell after numeric coercion and sentinel replacement
Coerced(c) == IF ToNumeric(c) = Num(Sentinel) THEN NanCell ELSE ToNumeric(c)
\* the same, and after the replacement of non-positive values when asked
Replaced(c, set_nonpositive_to_nan) ==
    IF set_nonpositive_to_nan /\ ~CellIsNa(Coerced(c)) /\ Coerced(c)[2] <= 0
    THEN NanCell ELSE Coerced(c)

OutOfOrder(lo, mid, hi) ==
    /\ ~CellIsNa(lo) /\ ~CellIsNa(mid) /\ ~CellIsNa(hi)
    /\ (lo[2] > mid[2] \/ mid[2] > hi[2])

\* row i of the result holds the elevations e (a triple) and is row i of
\* the input in every other column
RowIs(i, e) ==
    gdf.rows[i] = [inp.rows[i] EXCEPT !.min_elev = e[1], !.mean_elev = e[2],
                                      !.max_elev = e[3]]

OrderEnforced(Cell(_)) ==
    (/\ Returned("clean_elevations_soft")
     /\ args.enforce_order
     /\ Range(ElevCols) \subseteq inp.cols) =>
        /\ Len(gdf.rows) = Len(inp.rows)
        /\ \A i \in DOMAIN inp.rows :
              LET lo  == Cell(inp.rows[i].min_elev)
                  mid == Cell(inp.rows[i].mean_elev)
                  hi  == Cell(inp.rows[i].max_elev)
              IN  IF OutOfOrder(lo, mid, hi)
                  THEN RowIs(i, <<NanCell, NanCell, NanCell>>)
                  ELSE RowIs(i, <<lo, mid, hi>>)

\* C9 as stated: with enforce_order and the three columns present, exactly
\* the rows whose three elevations are all present after numeric coercion
\* and sentinel replacement and out of order get all three set to missing;
\* every other row keeps its elevations; no row is dropped and no other
\* column changes.
C9_OrderEnforcedAfterCoercionAndSentinel == OrderEnforced(Coerced)

\* C9 as amended: the same, the three elevations being those after numeric
\* coercion, sentinel replacement and, when set_nonpositive_to_nan is set,
\* the replacement of non-positive values by missing.
C9_OrderEnforcedAfterAllReplacements ==
    OrderEnforced(LAMBDA c : Replaced(c, args.set_nonpositive_to_nan))

\* a row out of order after a text cell was coerced was blanked
C9_Witness ==
    /\ Returned("clean_elevations_soft")
    /\ args.enforce_order
    /\ Range(ElevCols) \subseteq inp.cols
    /\ \E i \in DOMAIN inp.rows :
          /\ inp.rows[i].min_elev = Num(20)
          /\ inp.rows[i].mean_elev = Str("10")
          /\ gdf.rows[i].max_elev = NanCell
          /\ inp.rows[i].max_elev = Num(20)


-----------------------------------------------------------------------------
(* add_glims_history_features.  A history row is [glac_id, src_date_dt,    *)
(* area], a target row [glac_id, src_date_dt].  Fractional years are kept  *)
(* in units of 1/1461 year (a quarter of a day: 365.25 * 4 = 1461), a      *)
(* slope as a reduced fraction <<numerator, denominator>> of area per      *)
(* year; <<0, 0>> is the missing slope.                                    *)

YearUnits == 1461
NanSlope == <<0, 0>>

\* dt.year + dt.dayofyear / 365.25, in units of 1/1461 year
YearFrac(ts) == Year(ts) * YearUnits + DayOfYear(ts) * 4

Abs(x) == IF x < 0 THEN -x ELSE x

RECURSIVE Gcd(_, _)
Gcd(a, b) == IF b = 0 THEN a ELSE Gcd(b, a % b)

Fraction(n, d) ==
    LET g == Gcd(Abs(n), Abs(d))
        sgn == IF d < 0 THEN -1 ELSE 1
    IN  <<sgn * (n \div g), sgn * (d \div g)>>

Sum(q) ==
    LET F[i \in 0..Len(q)] == IF i = 0 THEN 0 ELSE F[i - 1] + q[i]
    IN  F[Len(q)]

\* np.polyfit(x, y, 1)[0] for x in year units and y without infinities: a
\* missing y makes the least-squares solution missing; equal x make the
\* system rank deficient and lstsq returns the minimum-norm solution of the
\* column-scaled system, mean(y) / (2 x); else the least-squares slope,
\* computed on x shifted by x[1] (the slope does not depend on the shift)
PolyfitSlope(x, y) ==
    LET n   == Len(x)
        u   == [i \in DOMAIN x |-> x[i] - x[1]]
        sx  == Sum(u)
        sy  == Sum(y)
        sxy == Sum([i \in DOMAIN x |-> u[i] * y[i]])
        sxx == Sum([i \in DOMAIN x |-> u[i] * u[i]])
        den == n * sxx - sx * sx
    IN  IF \E i \in DOMAIN y : IsNa(y[i]) THEN NanSlope
        ELSE IF den = 0 THEN Fraction(sy * YearUnits, 2 * n * x[1])
        ELSE Fraction((n * sxy - sx * sy) * YearUnits, den)

\* the first index of a least row: repeated selection is a stable sort
RowLess(a, b) ==
    Rank(a.glac_id) < Rank(b.glac_id)
        \/ (a.glac_id = b.glac_id /\ a.src_date_dt < b.src_date_dt)

RECURSIVE SortValues(_)
SortValues(q) ==
    IF q = << >> THEN << >>
    ELSE LET i == CHOOSE i \in DOMAIN q :
                    /\ \A j \in DOMAIN q : ~RowLess(q[j], q[i])
                    /\ \A j \in 1..(i - 1) : RowLess(q[i], q[j])
         IN  <<q[i]>> \o SortValues(SubSeq(q, 1, i - 1) \o SubSeq(q, i + 1, Len(q)))

Concat(qs) ==
    LET F[i \in 0..Len(qs)] == IF i = 0 THEN << >> ELSE F[i - 1] \o qs[i]
    IN  F[Len(qs)]

MaxOf(q) == CHOOSE m \in Range(q) : \A v \in Range(q) : v <= m
MinOf(q) == CHOOSE m \in Range(q) : \A v \in Range(q) : m <= v

\* mask = dates <= t
IsPastOrSame(d, t) == d <= t

\* mask = dates < t
IsPast(d, t) == d < t

\* the row of a target without past with a span of 0.0
EmptyPastRowZeroSpan(gid, t) ==
    [glac_id |-> gid, src_date_dt |-> t, n_past |-> 0,
     span_years_past |-> 0, area_trend_per_year |-> NanSlope,
     area_last |-> NaN, delta_area_last |-> NaN]

\* feats.append((gid, t, 0, np.nan, np.nan, np.nan, np.nan))
EmptyPastRow(gid, t) ==
    [glac_id |-> gid, src_date_dt |-> t, n_past |-> 0,
     span_years_past |-> NaN, area_trend_per_year |-> NanSlope,
     area_last |-> NaN, delta_area_last |-> NaN]

\* the feature row of target date t of identifier gid; group is the
\* identifier's history sorted by date
FeatureRow(gid, t, group) ==
    LET past       == SelectSeq(group, LAMBDA r : IsPast(r.src_date_dt, t))
        past_years == [i \in DOMAIN past |-> YearFrac(past[i].src_date_dt)]
        past_areas == [i \in DOMAIN past |-> past[i].area]
        n_past     == Len(past)
        finite     == Cardinality({i \in DOMAIN past : ~IsNa(past_areas[i])})
    IN  IF n_past = 0 THEN EmptyPastRow(gid, t)
        ELSE [glac_id |-> gid, src_date_dt |-> t, n_past |-> n_past,
              span_years_past |->
                  IF n_past >= 2 THEN MaxOf(past_years) - MinOf(past_years) ELSE 0,
              area_trend_per_year |->
                  IF n_past >= 2 /\ finite >= 2
                  THEN PolyfitSlope(past_years, past_areas) ELSE NanSlope,
              area_last |-> past_areas[n_past],
              delta_area_last |->
                  IF n_past >= 2
                  THEN Sub(past_areas[n_past], past_areas[n_past - 1]) ELSE NaN]

\* the identifiers of the groups of all_df, in the order groupby(sort=False)
\* meets them in the sorted frame
GroupIds(all_df) ==
    SelectSeq(GlacIds, LAMBDA id : \E i \in DOMAIN all_df : all_df[i].glac_id = id)

add_glims_history_features(temporal_all, temporal_targets) ==
    LET all_df == SortValues(SelectSeq(temporal_all,
                      LAMBDA r : r.glac_id # NoneStr /\ r.src_date_dt # NaT))
        tgt_df == SortValues(SelectSeq(temporal_targets,
                      LAMBDA r : r.glac_id # NoneStr /\ r.src_date_dt # NaT))
        gids   == GroupIds(all_df)
        OfGroup(gid) ==
            LET group     == SelectSeq(all_df, LAMBDA r : r.glac_id = gid)
                g_targets == SelectSeq(tgt_df, LAMBDA r : r.glac_id = gid)
            IN  [i \in DOMAIN g_targets |->
                    FeatureRow(gid, g_targets[i].src_date_dt, group)]
    IN  Concat([i \in DOMAIN gids |-> OfGroup(gids[i])])

-----------------------------------------------------------------------------
(* Specification SpecFeat: one call of add_glims_history_features.         *)

MaxHist == 3
MaxTargets == 2

HistRow(id, d, a) == [glac_id |-> id, src_date_dt |-> d, area |-> a]
TargetRow(id, d) == [glac_id |-> id, src_date_dt |-> d]

HistPool ==
    {HistRow("G1", D1, 2), HistRow("G1", D2, 8), HistRow("G1", D2, 2),
     HistRow("G1", D3, 2), HistRow("G1", D2, NaN), HistRow("G1", NaT, 2),
     HistRow("G2", D1, 8)}

TargetPool ==
    {TargetRow("G1", D2), TargetRow("G1", D3), TargetRow("G3", D2),
     TargetRow("G1", NaT)}

InitFeat ==
    /\ env \in [has_make_valid : {TRUE}]
    /\ gdf = NoTable /\ inp = NoTable /\ view = NoTable
    /\ op = "input" /\ args = NoArgs
    /\ hist \in SeqsUpTo(HistPool, MaxHist)
    /\ tgts \in SeqsUpTo(TargetPool, MaxTargets)
    /\ feats = << >>
    /\ fs = << >> /\ dl = Idle

AddGlimsHistoryFeatures ==
    /\ op = "input"
    /\ op' = "add_glims_history_features"
    /\ feats' = add_glims_history_features(hist, tgts)
    /\ UNCHANGED <<env, inp, gdf, args, view, hist, tgts, fs, dl>>

NextFeat == AddGlimsHistoryFeatures
SpecFeat == InitFeat /\ [][NextFeat]_vars


\* the history rows of identifier gid dated strictly before t
PastRows(gid, t) ==
    {i \in DOMAIN hist :
        /\ hist[i].glac_id = gid
        /\ hist[i].src_date_dt # NaT
        /\ hist[i].src_date_dt < t}

Called == op = "add_glims_history_features"

\* C6: every feature row of (glac_id, target date) is computed from the
\* history rows of that glac_id dated strictly before the target alone:
\* n_past counts them, area_last is the area of the latest of them,
\* delta_area_last is area_last minus the area of the second latest when
\* there are two or more and missing otherwise, span_years_past is 0 when
\* there is one; and the row is the one the function returns for that
\* target when the history holds those rows only.
C6_FeaturesFromStrictlyPriorRows ==
    Called =>
        \A f \in DOMAIN feats :
            LET row  == feats[f]
                past == PastRows(row.glac_id, row.src_date_dt)
                Latest(i, I) == \A k \in I : hist[k].src_date_dt <= hist[i].src_date_dt
            IN  /\ row.n_past = Cardinality(past)
                /\ past # {} =>
                      \E i \in past : Latest(i, past) /\ row.area_last = hist[i].area
                /\ Cardinality(past) >= 2 =>
                      \E i \in past : \E j \in past \ {i} :
                          /\ Latest(i, past)
                          /\ Latest(j, past \ {i})
                          /\ row.area_last = hist[i].area
                          /\ row.delta_area_last = Sub(hist[i].area, hist[j].area)
                /\ Cardinality(past) = 1 =>
                      (row.delta_area_last = NaN /\ row.span_years_past = 0)
                /\ past # {} =>
                      <<row>> = add_glims_history_features(
                                    SelectSeq(hist, LAMBDA h :
                                        /\ h.glac_id = row.glac_id
                                        /\ h.src_date_dt # NaT
                                        /\ h.src_date_dt < row.src_date_dt),
                                    <<TargetRow(row.glac_id, row.src_date_dt)>>)

\* a target between history rows of its identifier: two earlier ones with
\* differing areas, one dated after it, and a row of another identifier
C6_Witness ==
    /\ Called
    /\ \E f \in DOMAIN feats :
          /\ feats[f].n_past = 2
          /\ feats[f].src_date_dt = D3
          /\ feats[f].delta_area_last = 6
    /\ \E i \in DOMAIN hist : hist[i].glac_id = "G1" /\ hist[i].src_date_dt = D3

\* the number of target rows with both cells present and equal to (gid, t)
TargetsOf(gid, t) ==
    Cardinality({j \in DOMAIN tgts : tgts[j] = TargetRow(gid, t)})

FeaturesOf(gid, t) ==
    Cardinality({f \in DOMAIN feats :
                    feats[f].glac_id = gid /\ feats[f].src_date_dt = t})

OneRowPerTarget(InHistory(_)) ==
    Called =>
        /\ \A j \in DOMAIN tgts :
              (tgts[j].glac_id # NoneStr /\ tgts[j].src_date_dt # NaT) =>
                  FeaturesOf(tgts[j].glac_id, tgts[j].src_date_dt)
                      = IF InHistory(tgts[j].glac_id)
                        THEN TargetsOf(tgts[j].glac_id, tgts[j].src_date_dt)
                        ELSE 0
        /\ \A f \in DOMAIN feats :
              /\ TargetsOf(feats[f].glac_id, feats[f].src_date_dt) > 0
              /\ PastRows(feats[f].glac_id, feats[f].src_date_dt) = {} =>
                    /\ feats[f].n_past = 0
                    /\ feats[f].span_years_past = NaN
                    /\ feats[f].area_trend_per_year = NanSlope
                    /\ feats[f].area_last = NaN
                    /\ feats[f].delta_area_last = NaN

\* C7 as stated: one feature row per target row (identifier and date
\* present) whose identifier occurs in the history table, none for a target
\* whose identifier does not; with no history row strictly earlier the row
\* has n_past = 0 and every other feature missing.
C7_OneRowPerTargetIfIdInHistory ==
    OneRowPerTarget(LAMBDA id : \E i \in DOMAIN hist : hist[i].glac_id = id)

\* C7 as amended: the same, an identifier counting as in the history when
\* some history row of it has a date.
C7_OneRowPerTargetIfIdInDatedHistory ==
    OneRowPerTarget(LAMBDA id :
        \E i \in DOMAIN hist : hist[i].glac_id = id /\ hist[i].src_date_dt # NaT)

\* a target of an identifier whose history has no earlier row got its row
\* with n_past = 0, a target of an unknown identifier got none
C7_Witness ==
    /\ Called
    /\ Len(feats) = 1
    /\ feats[1].n_past = 0
    /\ Len(tgts) = 2
    /\ \E j \in DOMAIN tgts : tgts[j].glac_id = "G3"


-----------------------------------------------------------------------------
(* fetch_data and _download_one (specification SpecFetch).                 *)
(* fs[f] holds the two paths of target f: dest (out_path) and tmp (the     *)
(* ".part" path).  A file is [exists, data]; data is the sequence of the   *)
(* chunks written.  A response body is a sequence of chunks, 0 an empty    *)
(* chunk (which the loop skips) and 1 a chunk of bytes.                    *)

NFiles == 4
MaxChunks == 2
MaxRuns == 2

Files == 1..NFiles
Absent == [exists |-> FALSE, data |-> << >>]
Stale == [exists |-> TRUE, data |-> <<9>>]
EmptyFile == [exists |-> TRUE, data |-> << >>]
Bodies == UNION {[1..k -> {0, 1}] : k \in 0..MaxChunks}

\* what a complete download of body leaves in the file
Written(body) == SelectSeq(body, LAMBDA c : c # 0)

\* the body streamed to out_path itself
PartIsDest(f) == "dest"

\* the path the body is streamed to
Part(f) == "tmp"

InitFetch ==
    /\ env \in [has_make_valid : {TRUE}]
    /\ gdf = NoTable /\ inp = NoTable /\ view = NoTable
    /\ op = "input" /\ args = NoArgs
    /\ hist = << >> /\ tgts = << >> /\ feats = << >>
    /\ fs \in [Files -> [dest : {Absent, EmptyFile, Stale}, tmp : {Absent}]]
    /\ dl = [pc |-> "idle", i |-> 0, body |-> << >>, pos |-> 0,
             requests |-> << >>, runs |-> 0, error |-> ""]

Rest == <<env, inp, gdf, op, args, view, hist, tgts, feats>>

Fail(e) == dl' = [dl EXCEPT !.pc = "failed", !.error = e]

\* fetch_data up to the loop: _session() needs both credentials,
\* _targets_for_date an 8-digit date
FetchData ==
    /\ dl.pc \in {"idle", "done", "failed"}
    /\ dl.runs < MaxRuns
    /\ \E credentials \in BOOLEAN, date_ok \in BOOLEAN :
          dl' = IF ~credentials
                THEN [dl EXCEPT !.pc = "failed", !.error = "RuntimeError",
                                !.runs = @ + 1]
                ELSE IF ~date_ok
                THEN [dl EXCEPT !.pc = "failed", !.error = "ValueError",
                                !.runs = @ + 1]
                ELSE [dl EXCEPT !.pc = "check", !.i = 1, !.error = "",
                                !.requests = << >>, !.runs = @ + 1]
    /\ UNCHANGED <<fs, Rest>>

\* the end of _download_one and the next turn of the loop of fetch_data
NextTarget == IF dl.i = NFiles THEN [dl EXCEPT !.pc = "done"]
              ELSE [dl EXCEPT !.pc = "check", !.i = @ + 1]

\* _download_one: skip when out_path exists and is not empty
CheckExisting ==
    /\ dl.pc = "check"
    /\ dl' = IF fs[dl.i].dest.exists /\ Len(fs[dl.i].dest.data) > 0
             THEN NextTarget
             ELSE [dl EXCEPT !.pc = "get"]
    /\ UNCHANGED <<fs, Rest>>

\* session.get and raise_for_status: the request is issued; it fails, the
\* status is an error, or a body starts to stream
Get ==
    /\ dl.pc = "get"
    /\ \/ \E e \in {"ConnectionError", "HTTPError"} :
             dl' = [dl EXCEPT !.pc = "failed", !.error = e,
                              !.requests = Append(@, dl.i)]
       \/ \E body \in Bodies :
             dl' = [dl EXCEPT !.pc = "open", !.body = body, !.pos = 0,
                              !.requests = Append(@, dl.i)]
    /\ UNCHANGED <<fs, Rest>>

\* open(tmp, "wb") creates or truncates the file
OpenPart ==
    /\ dl.pc = "open"
    /\ fs' = [fs EXCEPT ![dl.i][Part(dl.i)] = EmptyFile]
    /\ dl' = [dl EXCEPT !.pc = "write"]
    /\ UNCHANGED Rest

\* one turn of the loop over iter_content: a chunk is written when it is
\* not empty
WriteChunk ==
    /\ dl.pc = "write"
    /\ dl.pos < Len(dl.body)
    /\ fs' = IF dl.body[dl.pos + 1] # 0
             THEN [fs EXCEPT ![dl.i][Part(dl.i)].data = Append(@, dl.body[dl.pos + 1])]
             ELSE fs
    /\ dl' = [dl EXCEPT !.pos = @ + 1]
    /\ UNCHANGED Rest

\* the stream breaks before its end: iter_content raises
StreamFails ==
    /\ dl.pc = "write"
    /\ dl.pos < Len(dl.body)
    /\ Fail("ChunkedEncodingError")
    /\ UNCHANGED <<fs, Rest>>

\* tmp.replace(out_path) once the body is exhausted
Replace ==
    /\ dl.pc = "write"
    /\ dl.pos = Len(dl.body)
    /\ fs' = [fs EXCEPT ![dl.i] = [[dest |-> Absent, tmp |-> Absent]
                                      EXCEPT !.dest = fs[dl.i][Part(dl.i)]]]
    /\ dl' = NextTarget
    /\ UNCHANGED Rest

NextFetch ==
    \/ FetchData
    \/ CheckExisting
    \/ Get
    \/ OpenPart
    \/ WriteChunk
    \/ StreamFails
    \/ Replace
SpecFetch == InitFetch /\ [][NextFetch]_vars


\* C10: the destination of a file changes only by the rename of its ".part"
\* file, after the whole body of the response was written to it, so that it
\* never holds a partial download, also when the request or the stream
\* fails; and a request is issued only for a destination that is absent or
\* empty.
C10_DestinationChangesOnlyByRename ==
    [][/\ \A f \in Files :
             fs'[f].dest # fs[f].dest =>
                 /\ dl.pc = "write" /\ dl.i = f /\ dl.pos = Len(dl.body)
                 /\ fs[f].tmp = [exists |-> TRUE, data |-> Written(dl.body)]
                 /\ fs'[f].dest = fs[f].tmp
                 /\ fs'[f].tmp = Absent
       /\ (dl'.requests # dl.requests /\ dl'.requests # << >>) =>
             /\ dl'.requests = Append(dl.requests, dl.i)
             /\ ~(fs[dl.i].dest.exists /\ Len(fs[dl.i].dest.data) > 0)
      ]_vars

\* a run whose stream broke left a partial ".part" file beside an untouched
\* empty destination, after an earlier file was renamed into place and a
\* file already there was skipped without a request
C10_Witness ==
    /\ dl.pc = "failed"
    /\ dl.error = "ChunkedEncodingError"
    /\ dl.requests = <<2, 3>>
    /\ fs[1].dest = Stale
    /\ fs[2].dest = [exists |-> TRUE, data |-> <<1, 1>>]
    /\ fs[3].dest = EmptyFile
    /\ fs[3].tmp = [exists |-> TRUE, data |-> <<1>>]

=============================================================================
